---------------------------- MODULE Spec2Model ----------------------------
(***************************************************************************)
(* Model of the multi-threaded bucket reader (readbucket_mt.cpp).          *)
(*                                                                         *)
(* One main thread starts ThreadCount Retriever threads, lists the bucket  *)
(* page by page, cuts every listed object into byte ranges of at most      *)
(* ReadChunkSize bytes and pushes one (key, range) task per range on the   *)
(* shared ObjectList; when the listing loop ends it calls SetEnd and joins *)
(* the threads.  Each Retriever pops tasks and issues one ranged GET per   *)
(* task until Pop reports empty and IsEnd reports true.                    *)
(*                                                                         *)
(* Every ObjectList method is a std::lock_guard on one std::mutex; it is   *)
(* modelled as two steps: taking the mutex, then the body together with    *)
(* the release at scope exit.                                              *)
(*                                                                         *)
(* Scaling.  TLC's integers are 32 bits wide, so the 64-bit arithmetic of  *)
(* the chunking loop is scaled: unsigned long long is WordModulus = 2^5    *)
(* values instead of 2^64 and ReadChunkSize is 2^2 instead of 2^32 (the    *)
(* chunk size still divides the modulus).  ThreadCount is 2 instead of 32. *)
(***************************************************************************)
EXTENDS Integers, Sequences, FiniteSets, Bags, TLC

\* ------------------------------------------------------------ constants

\* static const auto ThreadCount = 32U (scaled).
ThreadCount == 2
\* static const auto ReadChunkSize = 4GB (scaled).
ReadChunkSize == 4
\* Number of values of unsigned long long (scaled).
WordModulus == 32

\* ---------------------------------------------------------------- bounds

\* Pages of a bucket listing.
MaxPages == 2
\* Objects of a bucket, over all its pages.
MaxObjects == 2
\* GetObject requests that may fail in one run.
MaxGetErrors == 1
\* Tasks pushed for one object in the chunking-loop specification.
MaxPushes == 10
\* Calls made in one run of the queue harness.
MaxCalls == 5

\* Object sizes of the listed buckets: one full chunk (one task), a full
\* chunk and a remainder (two tasks).  A bucket without any task is the
\* empty bucket; every size, 0 included, is chunked in ChunkSpec.
PageSizes == {ReadChunkSize, ReadChunkSize + 1}

Main == 0
Workers == 1..ThreadCount
Threads == {Main} \cup Workers
\* mutex_ when no thread owns it.
Free == -1

VARIABLES
    keylist_,       \* ObjectList::keylist_: the queued (key, range) pairs
    end_marker_,    \* ObjectList::end_marker_
    mutex_,         \* ObjectList::mutex_: the owning thread, or Free
    pc,             \* where each thread is
    keyrange,       \* Retriever's keyrange: the std::optional Pop returned
    isend,          \* the value a caller's last IsEnd() returned
    bucket,         \* the remote bucket: its listing pages, each a list of sizes
    token,          \* objects_request's continuation token (0: none)
    outcome,        \* list_objects_outcome
    object_list,    \* object_list, the page being chunked
    objidx,         \* position of the range-for over object_list
    offset,         \* offset
    objsize,        \* objsize
    upper_bound,    \* upper_bound
    joined,         \* reader threads main has joined
    requests,       \* history: the tokens of the ListObjectsV2 calls, in order
    listErrors,     \* history: "ListObjects error" lines printed
    pushed,         \* history: the tasks pushed, in order
    popped,         \* history: the tasks Pop returned, in order
    gets,           \* history: bag of the GetObject requests issued
    getErrors,      \* history: "GetObject error" lines printed
    calls           \* history of the queue harness: the completed calls

vars == <<keylist_, end_marker_, mutex_, pc, keyrange, isend, bucket, token,
          outcome, object_list, objidx, offset, objsize, upper_bound, joined,
          requests, listErrors, pushed, popped, gets, getErrors, calls>>

envVars == <<bucket, calls>>
queueVars == <<keylist_, end_marker_, mutex_>>
mainVars == <<token, outcome, object_list, objidx, offset, objsize,
              upper_bound, joined>>
histVars == <<requests, listErrors, pushed, popped, gets, getErrors>>

Min(a, b) == IF a < b THEN a ELSE b

Range(s) == {s[i] : i \in DOMAIN s}

\* ----------------------------------------------------------- ObjectList

\* Mutant of Lock: the method body is entered without waiting for the mutex.
Lock_NoWait(t) == mutex_' = t

\* std::lock_guard<std::mutex> lock(mutex_): blocks until the mutex is free.
Lock(t) ==
    /\ mutex_ = Free
    /\ mutex_' = t

\* Mutant of Unlock: the method returns with the mutex still held.
Unlock_Forgets(t) == mutex_' = t

\* The lock_guard's destructor at the end of the method.
Unlock(t) == mutex_' = Free

\* Mutant of push_back: new work clears the terminal flag.
push_back_ClearsEnd(key, range) ==
    /\ keylist_' = Append(keylist_, [key |-> key, range |-> range])
    /\ end_marker_' = FALSE

\* Mutant of push_back: the task is put at the head of the list.
push_back_Front(key, range) ==
    /\ keylist_' = <<[key |-> key, range |-> range]>> \o keylist_
    /\ end_marker_' = end_marker_

\* The body of push_back: keylist_.emplace_back(key, range).
push_back(key, range) ==
    /\ keylist_' = Append(keylist_, [key |-> key, range |-> range])
    /\ end_marker_' = end_marker_

\* Mutant of PopResult: the task returned is the tail's, not the one removed.
PopResult_Last == IF keylist_ = <<>> THEN <<>> ELSE <<keylist_[Len(keylist_)]>>

\* What Pop returns: the empty optional, or a copy of the head of the list.
PopResult == IF keylist_ = <<>> THEN <<>> ELSE <<Head(keylist_)>>

\* Mutant of Pop: the head is returned and left in the list.
Pop_NoRemove ==
    /\ keylist_' = keylist_
    /\ end_marker_' = end_marker_

\* The body of Pop: keylist_.pop_front() unless the list is empty.
Pop ==
    /\ keylist_' = IF keylist_ = <<>> THEN keylist_ ELSE Tail(keylist_)
    /\ end_marker_' = end_marker_

\* Mutant of SetEnd: the flag is flipped, so a second call clears it.
SetEnd_Toggles ==
    /\ end_marker_' = ~end_marker_
    /\ keylist_' = keylist_

\* The body of SetEnd: end_marker_ = true.
SetEnd ==
    /\ end_marker_' = TRUE
    /\ keylist_' = keylist_

\* Mutant of IsEndResult: the caller never sees the flag set.
IsEndResult_NeverSet == FALSE

\* What IsEnd returns: end_marker_.
IsEndResult == end_marker_

\* The body of IsEnd: it only reads.
IsEnd ==
    /\ end_marker_' = end_marker_
    /\ keylist_' = keylist_

\* ------------------------------------------------------ range strings

\* ConstructByteRange: "bytes=<lower>-<upper>".  An HTTP byte-range-spec
\* names its first and its last byte position, both inclusive.
ConstructByteRange(lower, upper) == [first |-> lower, last |-> upper]

\* The byte positions a range string names.
RangeBytes(range) == range.first .. range.last

\* ------------------------------------------------------ the chunking loop

\* static_cast<unsigned long long>(s3_object.GetSize())
ToUnsigned(size) == size % WordModulus

\* Mutant of UpperBound: the chunk end is not clamped to the object size.
UpperBound_NoMin(off, size) == (off + ReadChunkSize) % WordModulus

\* std::min(objsize, offset + ReadChunkSize), the sum in unsigned long long.
UpperBound(off, size) == Min(size, (off + ReadChunkSize) % WordModulus)

\* Mutant of NextOffset: the next chunk starts on the last byte of this one.
NextOffset_OffByOne(off) == (off + ReadChunkSize - 1) % WordModulus

\* offset += ReadChunkSize, in unsigned long long.
NextOffset(off) == (off + ReadChunkSize) % WordModulus

\* ------------------------------------------------------ the object store

RECURSIVE SumLen(_)
SumLen(pages) == IF pages = <<>> THEN 0 ELSE Len(Head(pages)) + SumLen(Tail(pages))

\* The buckets of the model: an empty bucket lists as one empty page, any
\* other as one or more pages that each hold at least one object.
PageContents == UNION {[1..n -> PageSizes] : n \in 0..MaxObjects}
Buckets == {b \in UNION {[1..p -> PageContents] : p \in 1..MaxPages} :
               /\ SumLen(b) <= MaxObjects
               /\ Len(b) > 1 => \A p \in DOMAIN b : b[p] # <<>>}

\* A successful ListObjectsV2 for continuation token tok: the page after
\* the tok pages already listed.
ListSuccess(tok) ==
    LET p == tok + 1 IN
    [success |-> TRUE,
     contents |-> [i \in 1..Len(bucket[p]) |->
                      [key |-> <<p, i>>, size |-> bucket[p][i]]],
     isTruncated |-> p < Len(bucket),
     nextToken |-> IF p < Len(bucket) THEN p ELSE 0]

\* A failed ListObjectsV2: the outcome carries the error and a
\* default-constructed result (no contents, not truncated, empty token).
ListFailure ==
    [success |-> FALSE, contents |-> <<>>, isTruncated |-> FALSE,
     nextToken |-> 0]

\* list_objects_outcome before the first call.
NoOutcome == ListFailure

\* ----------------------------------------------------------------- Init

InitLocals ==
    /\ token = 0
    /\ outcome = NoOutcome
    /\ object_list = <<>>
    /\ objidx = 0
    /\ offset = 0
    /\ objsize = 0
    /\ upper_bound = 0
    /\ joined = 0

InitHistory ==
    /\ requests = <<>>
    /\ listErrors = 0
    /\ pushed = <<>>
    /\ popped = <<>>
    /\ gets = EmptyBag
    /\ getErrors = 0

InitQueue ==
    /\ keylist_ = <<>>
    /\ end_marker_ = FALSE
    /\ mutex_ = Free

Init ==
    /\ InitQueue
    /\ InitLocals
    /\ InitHistory
    /\ bucket \in Buckets
    /\ calls = <<>>
    /\ pc = [t \in Threads |-> IF t = Main THEN "start" ELSE "unstarted"]
    /\ keyrange = [w \in Workers |-> <<>>]
    /\ isend = [t \in Threads |-> FALSE]

\* ----------------------------------------------------------------- main

Goto(t, label) == pc' = [pc EXCEPT ![t] = label]

\* t = std::thread(Retriever, ...), one reader thread per step.
NextUnstarted == CHOOSE w \in Workers :
    /\ pc[w] = "unstarted"
    /\ \A v \in Workers : v < w => pc[v] # "unstarted"

MainStart ==
    /\ pc[Main] = "start"
    /\ LET w == NextUnstarted IN
       pc' = [pc EXCEPT ![w] = "Pop",
                        ![Main] = IF w = ThreadCount THEN "list" ELSE "start"]
    /\ UNCHANGED <<queueVars, mainVars, histVars, keyrange, isend, envVars>>

\* list_objects_outcome = s3_client.ListObjectsV2(objects_request) and the
\* test of IsSuccess(): on success the page becomes object_list, on failure
\* the error is printed.
MainList ==
    /\ pc[Main] = "list"
    /\ \E ok \in BOOLEAN :
        LET out == IF ok THEN ListSuccess(token) ELSE ListFailure IN
        /\ outcome' = out
        /\ object_list' = out.contents
        /\ objidx' = IF ok THEN 1 ELSE 0
        /\ listErrors' = IF ok THEN listErrors ELSE listErrors + 1
        /\ Goto(Main, IF ok THEN "for" ELSE "token")
    /\ requests' = Append(requests, token)
    /\ UNCHANGED <<queueVars, token, offset, objsize, upper_bound, joined,
                   pushed, popped, gets, getErrors, keyrange, isend, envVars>>

\* for (auto const & s3_object : object_list): offset = 0 and objsize is
\* the object's size cast to unsigned long long.
MainFor ==
    /\ pc[Main] = "for"
    /\ IF objidx <= Len(object_list)
       THEN /\ offset' = 0
            /\ objsize' = ToUnsigned(object_list[objidx].size)
            /\ Goto(Main, "while")
            /\ UNCHANGED <<object_list, objidx>>
       ELSE /\ object_list' = <<>>
            /\ objidx' = 0
            /\ Goto(Main, "token")
            /\ UNCHANGED <<offset, objsize>>
    /\ UNCHANGED <<queueVars, token, outcome, upper_bound, joined, histVars,
                   keyrange, isend, envVars>>

\* while (offset < objsize): upper_bound = min(objsize, offset + ReadChunkSize).
MainWhile ==
    /\ pc[Main] = "while"
    /\ IF offset < objsize
       THEN /\ upper_bound' = UpperBound(offset, objsize)
            /\ Goto(Main, "push_back")
            /\ UNCHANGED <<objidx, offset, objsize>>
       ELSE /\ objidx' = objidx + 1
            /\ offset' = 0
            /\ objsize' = 0
            /\ upper_bound' = 0
            /\ Goto(Main, "for")
    /\ UNCHANGED <<queueVars, token, outcome, object_list, joined, histVars,
                   keyrange, isend, envVars>>

\* objects.push_back(...): the lock_guard.
MainPushLock ==
    /\ pc[Main] = "push_back"
    /\ Lock(Main)
    /\ Goto(Main, "push_back_locked")
    /\ UNCHANGED <<keylist_, end_marker_, mainVars, histVars, keyrange, isend,
                   envVars>>

\* The body of push_back and, back in main, offset += ReadChunkSize.
MainPushBack ==
    /\ pc[Main] = "push_back_locked"
    /\ LET key == object_list[objidx].key
           range == ConstructByteRange(offset, upper_bound) IN
       /\ push_back(key, range)
       /\ pushed' = Append(pushed, [key |-> key, range |-> range])
    /\ Unlock(Main)
    /\ offset' = NextOffset(offset)
    /\ Goto(Main, "while")
    /\ UNCHANGED <<token, outcome, object_list, objidx, objsize,
                   upper_bound, joined, requests, listErrors, popped, gets,
                   getErrors, keyrange, isend, envVars>>

\* Mutant of MainToken: the terminal flag is raised at the end of every
\* page instead of after the listing loop.
MainToken_EndsEachPage ==
    /\ pc[Main] = "token"
    /\ token' = outcome.nextToken
    /\ end_marker_' = TRUE
    /\ Goto(Main, IF outcome.isTruncated THEN "list" ELSE "SetEnd")
    /\ UNCHANGED <<keylist_, mutex_, outcome, object_list, objidx, offset,
                   objsize, upper_bound, joined, histVars, keyrange, isend,
                   envVars>>

\* WithContinuationToken(GetNextContinuationToken()) and the loop test
\* while (GetResult().GetIsTruncated()).
MainToken ==
    /\ pc[Main] = "token"
    /\ token' = outcome.nextToken
    /\ Goto(Main, IF outcome.isTruncated THEN "list" ELSE "SetEnd")
    /\ UNCHANGED <<queueVars, outcome, object_list, objidx, offset, objsize,
                   upper_bound, joined, histVars, keyrange, isend, envVars>>

\* objects.SetEnd(): the lock_guard.
MainSetEndLock ==
    /\ pc[Main] = "SetEnd"
    /\ Lock(Main)
    /\ Goto(Main, "SetEnd_locked")
    /\ UNCHANGED <<keylist_, end_marker_, mainVars, histVars, keyrange, isend,
                   envVars>>

\* The body of SetEnd.
MainSetEnd ==
    /\ pc[Main] = "SetEnd_locked"
    /\ SetEnd
    /\ Unlock(Main)
    /\ Goto(Main, "join")
    /\ UNCHANGED <<mainVars, histVars, keyrange, isend, envVars>>

\* Mutant of MainJoin: join() returns without waiting for the thread.
MainJoin_NoWait ==
    /\ pc[Main] = "join"
    /\ joined' = joined + 1
    /\ Goto(Main, IF joined + 1 = ThreadCount THEN "shutdown" ELSE "join")
    /\ UNCHANGED <<queueVars, token, outcome, object_list, objidx, offset,
                   objsize, upper_bound, histVars, keyrange, isend, envVars>>

\* t.join(), one reader thread per step, in the vector's order: blocks until
\* that thread has returned from Retriever.
MainJoin ==
    /\ pc[Main] = "join"
    /\ pc[joined + 1] = "done"
    /\ joined' = joined + 1
    /\ Goto(Main, IF joined + 1 = ThreadCount THEN "shutdown" ELSE "join")
    /\ UNCHANGED <<queueVars, token, outcome, object_list, objidx, offset,
                   objsize, upper_bound, histVars, keyrange, isend, envVars>>

MainStep ==
    \/ MainStart
    \/ MainList
    \/ MainFor
    \/ MainWhile
    \/ MainPushLock
    \/ MainPushBack
    \/ MainToken
    \/ MainSetEndLock
    \/ MainSetEnd
    \/ MainJoin

\* ------------------------------------------------------------ Retriever

\* objects.Pop(): the lock_guard.
RetrieverPopLock(w) ==
    /\ pc[w] = "Pop"
    /\ Lock(w)
    /\ Goto(w, "Pop_locked")
    /\ UNCHANGED <<keylist_, end_marker_, mainVars, histVars, keyrange, isend,
                   envVars>>

\* The body of Pop and the test of the inner while: a task goes to
\* RetrieveObjectRange, the empty optional to the IsEnd check.
RetrieverPop(w) ==
    /\ pc[w] = "Pop_locked"
    /\ keyrange' = [keyrange EXCEPT ![w] = PopResult]
    /\ Pop
    /\ popped' = popped \o PopResult
    /\ Unlock(w)
    /\ Goto(w, IF PopResult = <<>> THEN "IsEnd" ELSE "Retrieve")
    /\ UNCHANGED <<mainVars, requests, listErrors, pushed, gets, getErrors,
                   isend, envVars>>

\* RetrieveObjectRange(s3_client, bucket_name, key, range): one GetObject,
\* which succeeds ("Read ...") or fails ("GetObject error: ..."); either
\* way the function returns and the inner while calls Pop again.
RetrieverRetrieve(w) ==
    /\ pc[w] = "Retrieve"
    /\ \E ok \in BOOLEAN :
        /\ ok \/ getErrors < MaxGetErrors
        /\ gets' = gets (+) SetToBag({keyrange[w][1]})
        /\ getErrors' = IF ok THEN getErrors ELSE getErrors + 1
    /\ Goto(w, "Pop")
    /\ keyrange' = [keyrange EXCEPT ![w] = <<>>]
    /\ UNCHANGED <<queueVars, mainVars, requests, listErrors, pushed, popped,
                   isend, envVars>>

\* objects.IsEnd(): the lock_guard.
RetrieverIsEndLock(w) ==
    /\ pc[w] = "IsEnd"
    /\ Lock(w)
    /\ Goto(w, "IsEnd_locked")
    /\ UNCHANGED <<keylist_, end_marker_, mainVars, histVars, keyrange, isend,
                   envVars>>

\* Mutant of AfterIsEnd: the thread never returns, it sleeps and polls again.
AfterIsEnd_NeverReturns(end) == "sleep"

\* Where Retriever goes with the value IsEnd returned: return, or sleep.
AfterIsEnd(end) == IF end THEN "done" ELSE "sleep"

\* The body of IsEnd and the test of its result.
RetrieverIsEnd(w) ==
    /\ pc[w] = "IsEnd_locked"
    /\ isend' = [isend EXCEPT ![w] = IsEndResult]
    /\ IsEnd
    /\ Unlock(w)
    /\ Goto(w, AfterIsEnd(IsEndResult))
    /\ UNCHANGED <<mainVars, histVars, keyrange, envVars>>

\* std::this_thread::sleep_for(10 ms), then the outer while again.
RetrieverSleep(w) ==
    /\ pc[w] = "sleep"
    /\ Goto(w, "Pop")
    /\ UNCHANGED <<queueVars, mainVars, histVars, keyrange, isend, envVars>>

Retriever(w) ==
    \/ RetrieverPopLock(w)
    \/ RetrieverPop(w)
    \/ RetrieverRetrieve(w)
    \/ RetrieverIsEndLock(w)
    \/ RetrieverIsEnd(w)
    \/ RetrieverSleep(w)

\* ------------------------------------------------------- specifications

Next ==
    \/ MainStep
    \/ \E w \in Workers : Retriever(w)

Spec == Init /\ [][Next]_vars

\* Fair scheduling: every thread that can run again and again does run, and
\* a thread that finds the mutex free again and again eventually takes it.
Fairness ==
    /\ SF_vars(MainStep)
    /\ \A w \in Workers : SF_vars(Retriever(w))

FairSpec == Spec /\ Fairness

\* ------------------------------------------------- the chunking loop alone

\* The sizes GetSize() can return: every long long.
SignedSizes == -(WordModulus \div 2) .. (WordModulus \div 2 - 1)

\* main at the range-for of a listing page that holds one object, of any
\* size; no reader thread runs.
ChunkInit ==
    /\ InitQueue
    /\ \E size \in SignedSizes :
        /\ bucket = <<<<size>>>>
        /\ object_list = <<[key |-> <<1, 1>>, size |-> size]>>
        /\ outcome = [success |-> TRUE, contents |-> object_list,
                      isTruncated |-> FALSE, nextToken |-> 0]
    /\ objidx = 1
    /\ token = 0
    /\ offset = 0
    /\ objsize = 0
    /\ upper_bound = 0
    /\ joined = 0
    /\ requests = <<0>>
    /\ listErrors = 0
    /\ pushed = <<>>
    /\ popped = <<>>
    /\ gets = EmptyBag
    /\ getErrors = 0
    /\ calls = <<>>
    /\ pc = [t \in Threads |-> IF t = Main THEN "for" ELSE "unstarted"]
    /\ keyrange = [w \in Workers |-> <<>>]
    /\ isend = [t \in Threads |-> FALSE]

\* The steps of the range-for and the while inside it, cut off after
\* MaxPushes tasks.
ChunkNext ==
    \/ Len(pushed) < MaxPushes /\ MainFor
    \/ Len(pushed) < MaxPushes /\ MainWhile
    \/ Len(pushed) < MaxPushes /\ MainPushLock
    \/ Len(pushed) < MaxPushes /\ MainPushBack

ChunkSpec == ChunkInit /\ [][ChunkNext]_vars

\* ------------------------------------------------------ the queue harness

\* Any thread may call any ObjectList method at any time, pushes after
\* SetEnd and repeated SetEnd calls included; calls records each completed
\* call with what it returned.
QueueOps == {"push_back", "Pop", "SetEnd", "IsEnd"}

QueueInit ==
    /\ InitQueue
    /\ InitLocals
    /\ InitHistory
    /\ bucket = <<<<>>>>
    /\ calls = <<>>
    /\ pc = [t \in Threads |-> "call"]
    /\ keyrange = [w \in Workers |-> <<>>]
    /\ isend = [t \in Threads |-> FALSE]

Called(op, result) == calls' = Append(calls, [op |-> op, result |-> result])

\* The lock_guard of the method thread t calls.
CallLock(t) ==
    /\ pc[t] = "call"
    /\ Len(calls) < MaxCalls
    /\ Lock(t)
    /\ \E op \in QueueOps : Goto(t, op \o "_locked")
    /\ UNCHANGED <<keylist_, end_marker_, mainVars, histVars, keyrange, isend,
                   bucket, calls>>

CallPushBack(t) ==
    /\ pc[t] = "push_back_locked"
    /\ LET key == <<0, Len(pushed) + 1>>
           range == ConstructByteRange(0, ReadChunkSize) IN
       /\ push_back(key, range)
       /\ pushed' = Append(pushed, [key |-> key, range |-> range])
       /\ Called("push_back", [key |-> key, range |-> range])
    /\ Unlock(t)
    /\ Goto(t, "call")
    /\ UNCHANGED <<mainVars, requests, listErrors, popped, gets, getErrors,
                   keyrange, isend, bucket>>

CallPop(t) ==
    /\ pc[t] = "Pop_locked"
    /\ Pop
    /\ popped' = popped \o PopResult
    /\ Called("Pop", PopResult)
    /\ Unlock(t)
    /\ Goto(t, "call")
    /\ UNCHANGED <<mainVars, requests, listErrors, pushed, gets, getErrors,
                   keyrange, isend, bucket>>

CallSetEnd(t) ==
    /\ pc[t] = "SetEnd_locked"
    /\ SetEnd
    /\ Called("SetEnd", <<>>)
    /\ Unlock(t)
    /\ Goto(t, "call")
    /\ UNCHANGED <<mainVars, histVars, keyrange, isend, bucket>>

CallIsEnd(t) ==
    /\ pc[t] = "IsEnd_locked"
    /\ IsEnd
    /\ Called("IsEnd", IsEndResult)
    /\ Unlock(t)
    /\ Goto(t, "call")
    /\ UNCHANGED <<mainVars, histVars, keyrange, isend, bucket>>

QueueNext ==
    \E t \in Threads :
        \/ CallLock(t)
        \/ CallPushBack(t)
        \/ CallPop(t)
        \/ CallSetEnd(t)
        \/ CallIsEnd(t)

QueueSpec == QueueInit /\ [][QueueNext]_vars

\* --------------------------------------------------------------- claims

AllDone == \A w \in Workers : pc[w] = "done"
AfterListing == pc[Main] \in {"SetEnd", "SetEnd_locked", "join", "shutdown"}
GetsOf(task) == CopiesIn(task, gets)

\* C1: once main has joined every reader thread, each pushed task has been
\* popped and has had exactly one GetObject issued for it, and none is left
\* in the queue.
C1_AllRetrievedAtShutdown ==
    pc[Main] = "shutdown" =>
        /\ keylist_ = <<>>
        /\ popped = pushed
        /\ \A task \in Range(pushed) : GetsOf(task) = 1

\* C2: a reader thread that has returned from Retriever did so with the
\* queue empty and the terminal flag set.
C2_DoneOnlyWhenDrained ==
    \A w \in Workers : pc[w] = "done" => (keylist_ = <<>> /\ end_marker_)

\* C3: under fair scheduling every reader thread eventually returns and
\* main's joins all complete.
C3_Termination == <>(pc[Main] = "shutdown" /\ AllDone)

\* C3 witness: a run that pushed several tasks has ended.
C3_Witness ==
    /\ pc[Main] = "shutdown"
    /\ AllDone
    /\ Len(pushed) >= 3
    /\ end_marker_

\* The successful Pop calls of the queue harness, in order.
PopReturns == SelectSeq(calls, LAMBDA c : c.op = "Pop" /\ c.result # <<>>)

NoDup(s) == \A i, j \in DOMAIN s : i # j => s[i] # s[j]

\* C4: whatever threads call Pop in whatever order, no task is returned by
\* two Pop calls, and the successful Pop calls are exactly the tasks that
\* have left the queue: with K tasks pushed and the queue empty again,
\* exactly K Pop calls have succeeded.
C4_AtMostOnceDelivery ==
    /\ NoDup(PopReturns)
    /\ Len(PopReturns) + Len(keylist_) = Len(pushed)

\* C4 witness: two tasks were pushed, both were popped, and a further Pop
\* found the queue empty.
C4_Witness ==
    /\ Len(pushed) = 2
    /\ Len(PopReturns) = 2
    /\ keylist_ = <<>>
    /\ \E i \in DOMAIN calls : calls[i].op = "Pop" /\ calls[i].result = <<>>

\* C5: once an IsEnd call has returned true, every later IsEnd call returns
\* true, whatever calls come between them.
C5_TerminalFlagMonotonic ==
    \A i, j \in DOMAIN calls :
        (/\ i < j
         /\ calls[i].op = "IsEnd" /\ calls[i].result
         /\ calls[j].op = "IsEnd") => calls[j].result

\* C5 witness: IsEnd returned true, a push followed, and IsEnd returned
\* true again.
C5_Witness ==
    \E i, k, j \in DOMAIN calls :
        /\ i < k /\ k < j
        /\ calls[i].op = "IsEnd" /\ calls[i].result
        /\ calls[k].op = "push_back"
        /\ calls[j].op = "IsEnd" /\ calls[j].result

\* The size GetSize() reported for the one object of the chunking-loop
\* specification, and the bounds of the i-th task pushed for it.
ChunkedSize == bucket[1][1]
Lower(i) == pushed[i].range.first
Upper(i) == pushed[i].range.last
ChunkingDone == pc[Main] = "token"

\* C6: for an object of size >= 0 the pairs (lower, upper) pushed, read as
\* [lower, upper), start at 0, each begins where the one before ended, each
\* is non-empty and at most ReadChunkSize long, and when the loop has ended
\* the last one ends at the object's size (no pair at all for size 0).
C6_PartitionCoverage ==
    ChunkedSize >= 0 =>
        /\ \A i \in DOMAIN pushed :
            /\ Lower(i) = IF i = 1 THEN 0 ELSE Upper(i - 1)
            /\ Lower(i) < Upper(i)
            /\ Upper(i) - Lower(i) <= ReadChunkSize
            /\ Upper(i) <= ChunkedSize
        /\ ChunkingDone =>
               IF ChunkedSize = 0 THEN pushed = <<>>
               ELSE pushed # <<>> /\ Upper(Len(pushed)) = ChunkedSize

\* C6 witness: an object that is not a whole number of chunks has been cut
\* into three full chunks and a remainder.
C6_Witness ==
    /\ ChunkingDone
    /\ ChunkedSize = 3 * ReadChunkSize + 1
    /\ Len(pushed) = 4

\* C7: for an object of size >= 0 the byte ranges requested, each read as
\* the inclusive range its string names, are pairwise disjoint, span at most
\* ReadChunkSize bytes each, and name no byte position >= the object's size.
C7_RequestedRangesDisjointBounded ==
    ChunkedSize >= 0 =>
        \A i \in DOMAIN pushed :
            /\ Cardinality(RangeBytes(pushed[i].range)) <= ReadChunkSize
            /\ \A b \in RangeBytes(pushed[i].range) : b < ChunkedSize
            /\ \A j \in DOMAIN pushed :
                  i # j => RangeBytes(pushed[i].range)
                              \cap RangeBytes(pushed[j].range) = {}

\* C8: when the listing loop has ended, every page of the bucket has been
\* requested: a failed page does not end the enumeration, the pages after
\* it are still listed.  (No task is pushed for a failed request.)
C8_ListingContinuesAfterFailure ==
    AfterListing => Len(requests) >= Len(bucket)

\* C9: in a run in which a listing request failed, once main has joined the
\* reader threads SetEnd has been called, every reader thread has returned
\* and every task pushed from the pages listed before has been retrieved.
C9_ListingFailureStillDrains ==
    (listErrors > 0 /\ pc[Main] = "shutdown") =>
        /\ end_marker_
        /\ AllDone
        /\ \A task \in Range(pushed) : GetsOf(task) >= 1

\* C10: a task whose GetObject failed is not put back and not requested
\* again, and in a run in which a GetObject failed, once main has joined
\* the reader threads every pushed task has still had its one GetObject.
C10_RetrievalFailureIsPerTask ==
    /\ \A task \in Range(pushed) : GetsOf(task) <= 1
    /\ \A w \in Workers : pc[w] = "Retrieve" => keyrange[w][1] \notin Range(keylist_)
    /\ (getErrors > 0 /\ pc[Main] = "shutdown") =>
           /\ AllDone
           /\ keylist_ = <<>>
           /\ \A task \in Range(pushed) : GetsOf(task) = 1

\* C11: a task is pushed only by main, inside its push_back, and only while
\* the terminal flag is not set; the flag changes only inside main's SetEnd,
\* from false to true, and main never calls SetEnd with the flag already
\* set; once main joins, the flag is set.
C11_SetEndOnceAfterLastPush ==
    /\ [](pc[Main] \in {"join", "shutdown"} => end_marker_)
    /\ [][/\ (pushed' # pushed \/ Len(keylist_') > Len(keylist_)) =>
               (pc[Main] = "push_back_locked" /\ mutex_ = Main /\ ~end_marker_)
          /\ end_marker_' # end_marker_ =>
               (pc[Main] = "SetEnd_locked" /\ mutex_ = Main /\ end_marker_')
          /\ (pc[Main] = "SetEnd_locked" /\ pc'[Main] # "SetEnd_locked") =>
               (~end_marker_ /\ end_marker_')]_vars

\* C11 witness: main has set the flag after pushing the tasks of two pages.
C11_Witness ==
    /\ end_marker_
    /\ pc[Main] = "join"
    /\ Len(requests) = 2
    /\ Len(pushed) >= 2

\* The threads that are inside a method of the ObjectList: past its
\* lock_guard and not yet out of its body.
LockedLabels == {"push_back_locked", "Pop_locked", "SetEnd_locked", "IsEnd_locked"}
Inside == {t \in Threads : pc[t] \in LockedLabels}

\* C12: at most one thread is inside push_back, Pop, SetEnd or IsEnd, and
\* that thread owns the mutex; with nobody inside, the mutex is free.
C12_MutualExclusion ==
    /\ Cardinality(Inside) <= 1
    /\ \A t \in Inside : mutex_ = t
    /\ Inside = {} => mutex_ = Free

\* C12 witness: a reader thread is inside Pop while main and the other
\* reader thread wait at the lock_guard of push_back and of IsEnd.
C12_Witness ==
    /\ pc[1] = "Pop_locked"
    /\ pc[Main] = "push_back"
    /\ pc[2] = "IsEnd"

\* ceil(size / ReadChunkSize), and the (lower, upper) pairs pushed so far.
ChunkCount(size) == (size + ReadChunkSize - 1) \div ReadChunkSize
PushedBounds == [i \in DOMAIN pushed |-> <<Lower(i), Upper(i)>>]

\* C13: for an object of size >= 0 the i-th task pushed has the bounds
\* ((i-1) * ReadChunkSize, min(size, i * ReadChunkSize)), so the offsets
\* ascend, and when the loop has ended exactly ceil(size / ReadChunkSize)
\* tasks were pushed: none for size 0, one (0, size) for a size below the
\* chunk size, and (0, chunk), (chunk, size) for a size between one and two
\* chunks.
C13_ChunkCountAscending ==
    ChunkedSize >= 0 =>
        /\ Len(pushed) <= ChunkCount(ChunkedSize)
        /\ \A i \in DOMAIN pushed :
            /\ Lower(i) = (i - 1) * ReadChunkSize
            /\ Upper(i) = Min(ChunkedSize, i * ReadChunkSize)
            /\ \A j \in DOMAIN pushed : i < j => Lower(i) < Lower(j)
        /\ ChunkingDone =>
            /\ Len(pushed) = ChunkCount(ChunkedSize)
            /\ ChunkedSize = 0 => PushedBounds = <<>>
            /\ ChunkedSize = ReadChunkSize - 2 =>
                   PushedBounds = <<<<0, ReadChunkSize - 2>>>>
            /\ ChunkedSize = ReadChunkSize + 1 =>
                   PushedBounds = <<<<0, ReadChunkSize>>,
                                    <<ReadChunkSize, ReadChunkSize + 1>>>>

\* C13 witness: the loop has ended for an object one byte longer than a
\* chunk, with two tasks pushed.
C13_Witness ==
    /\ ChunkingDone
    /\ ChunkedSize = ReadChunkSize + 1
    /\ Len(pushed) = 2

\* The step of one thread, the labels at which a thread stands before a
\* lock_guard, and the states in which the whole program has finished.
StepOf(t) == IF t = Main THEN MainStep ELSE Retriever(t)
LockLabels == {"push_back", "Pop", "SetEnd", "IsEnd"}
Finished == pc[Main] = "shutdown" /\ AllDone

\* C14: unless main and every reader thread have finished, some thread can
\* step; the owner of the mutex is inside a method and can always step (no
\* method blocks while holding the mutex); a thread that cannot step has
\* finished, is not started yet, waits at a lock_guard for a mutex another
\* thread holds, or is main in join() on a thread still running (a sleeping
\* thread can always step); and under fair scheduling no thread stays at a
\* lock_guard for ever.
C14_NoDeadlock ==
    /\ [](~Finished => ENABLED Next)
    /\ [](mutex_ # Free => (pc[mutex_] \in LockedLabels /\ ENABLED StepOf(mutex_)))
    /\ [](\A t \in Threads :
            \/ ENABLED StepOf(t)
            \/ pc[t] \in {"done", "shutdown", "unstarted"}
            \/ pc[t] \in LockLabels /\ mutex_ \notin {Free, t}
            \/ t = Main /\ pc[t] = "join" /\ pc[joined + 1] # "done")
    /\ \A t \in Threads : []<>(pc[t] \notin LockLabels)

\* C14 witness: main waits in join() for the first reader thread, which
\* waits at Pop's lock_guard for the mutex the second reader thread holds
\* inside IsEnd.
C14_Witness ==
    /\ pc[Main] = "join"
    /\ pc[1] = "Pop"
    /\ pc[2] = "IsEnd_locked"
    /\ mutex_ = 2

\* C15: the tasks popped so far, in the order of the Pop calls, followed by
\* the tasks still in the list from head to tail, are the tasks pushed so
\* far in the order of the push_back calls; and two tasks of one object are
\* popped in ascending offset order.
C15_Fifo ==
    /\ pushed = popped \o keylist_
    /\ \A i, j \in DOMAIN popped :
          (i < j /\ popped[i].key = popped[j].key) =>
              popped[i].range.first < popped[j].range.first

\* C15 witness: both tasks of a two-chunk object and a task of another
\* object have been popped while a later task is still queued.
C15_Witness ==
    /\ Len(popped) >= 3
    /\ popped[1].key = popped[2].key
    /\ popped[3].key # popped[1].key
    /\ keylist_ # <<>>

\* C16: once the first ListObjectsV2 request has been made every reader
\* thread has been started; main is in its join loop only with SetEnd
\* completed; the threads main has joined have returned; and main is past
\* the join loop only when every reader thread has returned.
C16_StartBeforeListJoinAfterSetEnd ==
    /\ (requests # <<>> \/ pc[Main] # "start") =>
           \A w \in Workers : pc[w] # "unstarted"
    /\ (pc[Main] \in {"join", "shutdown"} \/ joined > 0) =>
           (end_marker_ /\ mutex_ # Main)
    /\ \A w \in 1..joined : pc[w] = "done"
    /\ pc[Main] = "shutdown" => (joined = ThreadCount /\ AllDone)

\* C16 witness: main is past the join loop after listing two pages, every
\* reader thread having returned.
C16_Witness ==
    /\ pc[Main] = "shutdown"
    /\ joined = ThreadCount
    /\ AllDone
    /\ Len(requests) = 2

InQueue(task) == Cardinality({i \in DOMAIN keylist_ : keylist_[i] = task})
HeldBy(task) == {w \in Workers : keyrange[w] = <<task>>}

\* C18: the pushed tasks are pairwise distinct, and each of them is in
\* exactly one place: once in the list, held by one reader thread that is
\* in RetrieveObjectRange, or retrieved once; and nothing that was not
\* pushed is in any of these places.
C18_TaskConservation ==
    /\ NoDup(pushed)
    /\ \A task \in Range(pushed) :
          InQueue(task) + Cardinality(HeldBy(task)) + GetsOf(task) = 1
    /\ Range(keylist_) \subseteq Range(pushed)
    /\ BagToSet(gets) \subseteq Range(pushed)
    /\ \A w \in Workers :
          IF pc[w] = "Retrieve"
          THEN Len(keyrange[w]) = 1 /\ keyrange[w][1] \in Range(pushed)
          ELSE keyrange[w] = <<>>

\* C18 witness: while main is about to push another task, one task is in
\* the list, one is held by a reader thread and one has been retrieved.
C18_Witness ==
    /\ pc[Main] = "push_back"
    /\ Len(keylist_) = 1
    /\ pc[1] = "Retrieve"
    /\ BagCardinality(gets) = 1
    /\ Len(pushed) = 3

\* The most tasks a loop that ends can push for one object: its offsets are
\* distinct multiples of ReadChunkSize below the word's modulus.
MaxChunks == WordModulus \div ReadChunkSize

\* C19: for every value of the object's size, negative ones cast to
\* unsigned included, every task pushed has lower < upper and the loop
\* pushes no more tasks than there are chunk offsets in the word, that is,
\* it does not start over from offset 0.
C19_ChunkLoopTerminates ==
    /\ \A i \in DOMAIN pushed : Lower(i) < Upper(i)
    /\ Len(pushed) <= MaxChunks
    /\ \A i, j \in DOMAIN pushed : i < j => Lower(i) < Lower(j)

\* The call a step of the queue harness completes, if it completes one.
CallCompletes == Len(calls') = Len(calls) + 1
Completed == calls'[Len(calls')]

\* C20: a Pop on an empty list returns the empty optional and leaves the
\* list and the flag as they were, and Pop returns empty only then; SetEnd
\* and IsEnd leave the list as it was; push_back, Pop and IsEnd leave the
\* flag as it was; a SetEnd with the flag already set leaves list and flag
\* as they were; and taking the mutex changes neither.
C20_QueueFrameConditions ==
    [][IF CallCompletes
       THEN /\ (Completed.op = "Pop" /\ keylist_ = <<>>) =>
                  /\ Completed.result = <<>>
                  /\ keylist_' = keylist_
                  /\ end_marker_' = end_marker_
            /\ (Completed.op = "Pop" /\ Completed.result = <<>>) =>
                  keylist_ = <<>>
            /\ Completed.op \in {"SetEnd", "IsEnd"} => keylist_' = keylist_
            /\ Completed.op \in {"push_back", "Pop", "IsEnd"} =>
                  end_marker_' = end_marker_
            /\ (Completed.op = "SetEnd" /\ end_marker_) =>
                  (end_marker_' /\ keylist_' = keylist_)
       ELSE keylist_' = keylist_ /\ end_marker_' = end_marker_]_vars

\* C20 witness: SetEnd has been called twice, Pop has been called on an
\* empty list, and a task pushed afterwards is in the list with the flag
\* still set.
C20_Witness ==
    /\ \E i, j, k, l \in DOMAIN calls :
          /\ i < j /\ j < k /\ k < l
          /\ calls[i].op = "SetEnd"
          /\ calls[j].op = "SetEnd"
          /\ calls[k].op = "Pop" /\ calls[k].result = <<>>
          /\ calls[l].op = "push_back"
    /\ end_marker_
    /\ Len(keylist_) = 1

=============================================================================
